---- MODULE Spec2Model ----
(***************************************************************************)
(* Model of src/assets/batch_fixer_cli.py: the batch program that applies  *)
(* sidecar JSON metadata to media files of an export tree and then         *)
(* reorganises the tree (quarantine of orphan media, archive of sidecars). *)
(*                                                                         *)
(* A file name is a sequence of one-character strings, a path is a         *)
(* sequence of names below the directory that holds the source folder, so  *)
(* that lower(), endswith(), splitext() and the suffix stripping are       *)
(* computed as the code computes them.                                     *)
(***************************************************************************)
EXTENDS Integers, Sequences, FiniteSets, TLC

\* ------------------------------------------------------------------------
\* Bounds of the model
\* ------------------------------------------------------------------------
\* at most this many files are present in the initial tree
MaxFiles == 3
\* the program is launched at most this many times on the same tree
MaxRuns == 2
\* at most this many files are removed by another actor during the runs
MaxExternal == 1
\* at most this many moves of the two passes of one launch raise
MaxMoveErrors == 1

\* ------------------------------------------------------------------------
\* Python string operations
\* ------------------------------------------------------------------------
\* the lower-case letter of each upper-case letter
ToLower ==
  ("A" :> "a") @@ ("B" :> "b") @@ ("C" :> "c") @@ ("D" :> "d") @@ ("E" :> "e") @@
  ("F" :> "f") @@ ("G" :> "g") @@ ("H" :> "h") @@ ("I" :> "i") @@ ("J" :> "j") @@
  ("K" :> "k") @@ ("L" :> "l") @@ ("M" :> "m") @@ ("N" :> "n") @@ ("O" :> "o") @@
  ("P" :> "p") @@ ("Q" :> "q") @@ ("R" :> "r") @@ ("S" :> "s") @@ ("T" :> "t") @@
  ("U" :> "u") @@ ("V" :> "v") @@ ("W" :> "w") @@ ("X" :> "x") @@ ("Y" :> "y") @@
  ("Z" :> "z")

\* the upper-case letter of each lower-case letter
ToUpper ==
  ("a" :> "A") @@ ("b" :> "B") @@ ("c" :> "C") @@ ("d" :> "D") @@ ("e" :> "E") @@
  ("f" :> "F") @@ ("g" :> "G") @@ ("h" :> "H") @@ ("i" :> "I") @@ ("j" :> "J") @@
  ("k" :> "K") @@ ("l" :> "L") @@ ("m" :> "M") @@ ("n" :> "N") @@ ("o" :> "O") @@
  ("p" :> "P") @@ ("q" :> "Q") @@ ("r" :> "R") @@ ("s" :> "S") @@ ("t" :> "T") @@
  ("u" :> "U") @@ ("v" :> "V") @@ ("w" :> "W") @@ ("x" :> "X") @@ ("y" :> "Y") @@
  ("z" :> "Z")

\* str.lower() on one character
LowerChar(c) == IF c \in DOMAIN ToLower THEN ToLower[c] ELSE c

\* str.upper() on one character
UpperChar(c) == IF c \in DOMAIN ToUpper THEN ToUpper[c] ELSE c

\* str.lower(), character by character
Lower(s) == [i \in 1..Len(s) |-> LowerChar(s[i])]

\* str.upper(), character by character
Upper(s) == [i \in 1..Len(s) |-> UpperChar(s[i])]

\* s.endswith(p)
EndsWith(s, p) ==
  /\ Len(s) >= Len(p)
  /\ SubSeq(s, Len(s) - Len(p) + 1, Len(s)) = p

\* s.startswith(p)
StartsWith(s, p) ==
  /\ Len(s) >= Len(p)
  /\ SubSeq(s, 1, Len(p)) = p

\* s[:-n] for n > 0
DropLast(s, n) == SubSeq(s, 1, Len(s) - n)

\* the greatest element of a set of positions, 0 for the empty set
LastOf(positions) ==
  IF positions = {} THEN 0
  ELSE CHOOSE i \in positions : \A j \in positions : j <= i

\* os.path.splitext: the extension starts at the last "." of s (at
\* position last_dot), unless only dots precede it
DotAt(s, last_dot) ==
  IF \E j \in 1..(last_dot - 1) : s[j] # "." THEN last_dot ELSE 0

\* position of the "." that starts the extension of s, 0 if s has none
ExtDot(s) ==
  CHOOSE d \in { DotAt(s, last_dot) :
                   last_dot \in { LastOf({ i \in 1..Len(s) : s[i] = "." }) } } : TRUE

DigitChars == << "0","1","2","3","4","5","6","7","8","9" >>

\* str(n) for n >= 0, as in the f-strings of the collision loops
RECURSIVE IntToStr(_)
IntToStr(n) ==
  IF n < 10 THEN << DigitChars[n + 1] >>
  ELSE IntToStr(n \div 10) \o << DigitChars[(n % 10) + 1] >>

\* ------------------------------------------------------------------------
\* Literals of the program
\* ------------------------------------------------------------------------
DOT_JSON == << ".","j","s","o","n" >>

SUPPLEMENT == << ".","s","u","p","p","l","e","m","e","n","t" >>

\* a list of six suffixes of which the last one is the end of the others
json_patterns_nested ==
  << SUPPLEMENT \o << "a","l","-","m","e","t","a","d","a","t","a" >> \o DOT_JSON,
     SUPPLEMENT \o << "a","l","-","m","e","t","a","d","a" >> \o DOT_JSON,
     SUPPLEMENT \o << "a","l","-","m","e","t" >> \o DOT_JSON,
     SUPPLEMENT \o << "a","l","-","m" >> \o DOT_JSON,
     SUPPLEMENT \o << "a","l" >> \o DOT_JSON,
     DOT_JSON >>

\* the six sidecar suffixes, in the order of the lists of find_json_files,
\* find_media_file and process_photos
json_patterns ==
  << SUPPLEMENT \o << "a","l","-","m","e","t","a","d","a","t","a" >> \o DOT_JSON,
     SUPPLEMENT \o << "a","l","-","m","e","t","a","d","a" >> \o DOT_JSON,
     SUPPLEMENT \o << "a","l","-","m","e","t" >> \o DOT_JSON,
     SUPPLEMENT \o << "a","l","-","m" >> \o DOT_JSON,
     SUPPLEMENT \o << "a","l" >> \o DOT_JSON,
     SUPPLEMENT \o DOT_JSON >>

EXT_JPG == << ".","j","p","g" >>

EXT_HEIC == << ".","h","e","i","c" >>

\* the media extensions, in the order of find_media_file
media_extensions ==
  << EXT_JPG,
     << ".","j","p","e","g" >>,
     EXT_HEIC,
     << ".","p","n","g" >>,
     << ".","g","i","f" >>,
     << ".","w","e","b","p" >>,
     << ".","t","i","f","f" >>,
     << ".","t","i","f" >>,
     << ".","m","p","4" >>,
     << ".","m","4","v" >>,
     << ".","m","o","v" >>,
     << ".","a","v","i" >>,
     << ".","m","p","g" >>,
     << ".","m","p","e","g" >> >>

\* ext.lower() and ext.upper() of each media extension
media_extensions_lower ==
  << Lower(media_extensions[1]), Lower(media_extensions[2]),
     Lower(media_extensions[3]), Lower(media_extensions[4]),
     Lower(media_extensions[5]), Lower(media_extensions[6]),
     Lower(media_extensions[7]), Lower(media_extensions[8]),
     Lower(media_extensions[9]), Lower(media_extensions[10]),
     Lower(media_extensions[11]), Lower(media_extensions[12]),
     Lower(media_extensions[13]), Lower(media_extensions[14]) >>

media_extensions_upper ==
  << Upper(media_extensions[1]), Upper(media_extensions[2]),
     Upper(media_extensions[3]), Upper(media_extensions[4]),
     Upper(media_extensions[5]), Upper(media_extensions[6]),
     Upper(media_extensions[7]), Upper(media_extensions[8]),
     Upper(media_extensions[9]), Upper(media_extensions[10]),
     Upper(media_extensions[11]), Upper(media_extensions[12]),
     Upper(media_extensions[13]), Upper(media_extensions[14]) >>

NO_METADATA_FOUND ==
  << "N","O","_","M","E","T","A","D","A","T","A","_","F","O","U","N","D" >>

JSON_METADATA == << "J","S","O","N","_","M","E","T","A","D","A","T","A" >>

README_TXT == << "R","E","A","D","M","E",".","t","x","t" >>

\* the folders every os.walk of the program prunes
ignore_folders == { NO_METADATA_FOUND, JSON_METADATA }

\* the source folder and the names the trees of the model are made of
SRC == << "t","r","e","e" >>

source_folder == << SRC >>

BASE == << "A" >>

SUB == << "s","u","b" >>

\* the files a tree may hold at the start: media files, sidecars in several
\* spellings, files with unrelated endings, files already inside the output
\* folders of the source folder and of a subfolder, and a plain file that has
\* the quarantine folder's name
Candidates ==
  << << SRC, BASE \o EXT_HEIC >>,
     << SRC, BASE \o EXT_JPG >>,
     << SRC, BASE \o << "(","1",")" >> \o EXT_JPG >>,
     << SRC, BASE \o json_patterns[1] >>,
     << SRC, BASE \o Upper(json_patterns[6]) >>,
     << SRC, BASE \o EXT_JPG \o json_patterns[1] >>,
     << SRC, BASE \o DOT_JSON >>,
     << SRC, NO_METADATA_FOUND >>,
     << SRC, SUB, BASE \o json_patterns[5] >>,
     << SRC, SUB, BASE \o EXT_JPG >>,
     << SRC, NO_METADATA_FOUND, BASE \o EXT_JPG >>,
     << SRC, JSON_METADATA, BASE \o json_patterns[1] >>,
     << SRC, SUB, JSON_METADATA, BASE \o json_patterns[1] >>,
     << SRC, SUB, NO_METADATA_FOUND, BASE \o EXT_JPG >> >>


\* ------------------------------------------------------------------------
\* What the program computes from a file name
\* ------------------------------------------------------------------------
\* pattern.lower() of each sidecar suffix
json_patterns_lower ==
  << Lower(json_patterns[1]), Lower(json_patterns[2]), Lower(json_patterns[3]),
     Lower(json_patterns[4]), Lower(json_patterns[5]), Lower(json_patterns[6]) >>

\* the patterns of the list whose lower-case form filename_lower ends with
HitsOfLower(filename_lower) ==
  { k \in 1..Len(json_patterns) : EndsWith(filename_lower, json_patterns_lower[k]) }

\* the same test without lower(): the name must end with the pattern as written
JsonHitsCaseSensitive(name) ==
  { k \in 1..Len(json_patterns) : EndsWith(name, json_patterns[k]) }

\* the patterns of the ordered list that the name ends with, compared as
\* name.lower().endswith(pattern.lower())
JsonHits(name) == HitsOfLower(Lower(name))

\* file_lower.endswith(tuple(media_extensions_lower))
EndsWithMediaExtension(file_lower) ==
  \E k \in 1..Len(media_extensions_lower) :
     EndsWith(file_lower, media_extensions_lower[k])

IsMediaName(name) == EndsWithMediaExtension(Lower(name))

\* os.path.splitext(name)[0]
RootAt(s, dot) == IF dot = 0 THEN s ELSE SubSeq(s, 1, dot - 1)

SplitExtRoot(s) == CHOOSE r \in { RootAt(s, dot) : dot \in { ExtDot(s) } } : TRUE

\* os.path.splitext(name)[1]
ExtAt(s, dot) == IF dot = 0 THEN << >> ELSE SubSeq(s, dot, Len(s))

SplitExtExt(s) == CHOOSE e \in { ExtAt(s, dot) : dot \in { ExtDot(s) } } : TRUE

\* ------------------------------------------------------------------------
\* Paths and the file system
\* ------------------------------------------------------------------------
\* A path is the sequence of its components below the directory that holds
\* the source folder: << SRC >> is the source folder, << SRC, n >> a file n in
\* it. The source folder is given as an absolute path, so its parent
\* directory is the non-empty path written << >> here.
\* the location of a file that does not exist (any more)
NoPath == << >>

\* os.path.dirname (the parent of the top directory is itself)
Dirname(p) == IF Len(p) = 0 THEN p ELSE SubSeq(p, 1, Len(p) - 1)

\* os.path.basename
Basename(p) == p[Len(p)]

\* os.path.join(d, n)
Join(d, n) == Append(d, n)

\* os.path.exists(p) for a file path p; f maps each file to its location
Exists(f, p) == \E id \in DOMAIN f : f[id] # NoPath /\ f[id] = p

\* the file found at path p
FileAt(f, p) == CHOOSE id \in DOMAIN f : f[id] = p

\* shutil.move(src, dst) of a file onto a file path: os.rename, which
\* replaces a file already at dst
Move(f, src, dst) ==
  [id \in DOMAIN f |->
     IF f[id] = src THEN dst
     ELSE IF f[id] = dst THEN NoPath
     ELSE f[id]]

\* the sub-directories of d among the existing directories ds
SubDirs(ds, d) ==
  { c \in ds : Len(c) = Len(d) + 1 /\ SubSeq(c, 1, Len(d)) = d }

\* the directories os.walk(top) visits when nothing is removed from dirnames
RECURSIVE WalkDirsUnpruned(_, _)
WalkDirsUnpruned(ds, top) ==
  {top} \cup UNION { WalkDirsUnpruned(ds, c) : c \in SubDirs(ds, top) }

\* the directories os.walk(top) visits when the loop body removes the
\* ignored folders from dirnames before the descent
RECURSIVE WalkDirs(_, _)
WalkDirs(ds, top) ==
  {top} \cup
  UNION { WalkDirs(ds, c) :
            c \in { d \in SubDirs(ds, top) : Basename(d) \notin ignore_folders } }

\* the paths of the files os.walk(top) lists (the filenames of every
\* visited directory)
FilesIn(f, visited) ==
  { f[id] : id \in { i \in DOMAIN f :
                       f[i] # NoPath /\ Dirname(f[i]) \in visited } }

\* the files an unpruned walk lists
WalkFilesEverywhere(f, ds, top) ==
  UNION { FilesIn(f, visited) : visited \in { WalkDirsUnpruned(ds, top) } }

WalkFiles(f, ds, top) ==
  UNION { FilesIn(f, visited) : visited \in { WalkDirs(ds, top) } }

\* os.walk is top-down: the files of a directory are listed together and
\* before the files of the directories below it; the order inside one
\* listing is the file system's
WalkOrders(paths) ==
  LET n == Cardinality(paths)
  IN  { s \in [1..n -> paths] :
          /\ \A i, j \in 1..n : i # j => s[i] # s[j]
          /\ \A i, j \in 1..n :
               i < j => ~ ( /\ Len(Dirname(s[j])) < Len(Dirname(s[i]))
                            /\ SubSeq(Dirname(s[i]), 1, Len(Dirname(s[j])))
                                 = Dirname(s[j]) )
          /\ \A i, j, k \in 1..n :
               (i < j /\ j < k /\ Dirname(s[i]) = Dirname(s[k]))
                  => Dirname(s[j]) = Dirname(s[i]) }

\* ------------------------------------------------------------------------
\* find_json_files
\* ------------------------------------------------------------------------
\* any(filename.lower().endswith(pattern.lower()) for pattern in patterns)
IsJsonNameCaseSensitive(name) == JsonHitsCaseSensitive(name) # {}

IsJsonName(name) == JsonHits(name) # {}

\* the set of paths find_json_files(root_dir) returns
find_json_files(f, ds, root_dir) ==
  { p \in WalkFiles(f, ds, root_dir) : IsJsonName(Basename(p)) }

\* ------------------------------------------------------------------------
\* find_media_file
\* ------------------------------------------------------------------------
\* the least element of a set of indices, 0 for the empty set
FirstOf(hits) ==
  IF hits = {} THEN 0 ELSE CHOOSE k \in hits : \A j \in hits : k <= j

\* index of the first pattern of the ordered list that the name ends with,
\* 0 when none does (the for ... break loops over json_patterns)
FirstPattern(name) == FirstOf(JsonHits(name))

\* the name without the suffix json_patterns[k]
StripAt(name, k) ==
  IF k = 0 THEN name ELSE DropLast(name, Len(json_patterns[k]))

\* the name with the first matching suffix removed
StripPattern(name) == StripAt(name, FirstPattern(name))

PatternAt(k) == IF k = 0 THEN << >> ELSE json_patterns[k]

\* the suffix that was removed, "" when none matched
PatternOf(name) == PatternAt(FirstPattern(name))

\* first element of the sequence of candidate paths that exists, 0 if none
FirstExisting(f, cands) ==
  FirstOf({ k \in 1..Len(cands) : Exists(f, cands[k]) })

\* the candidates of the first loop, in the order they are tested: for each
\* extension the exact, the lower-case and the upper-case spelling
SameDirCandidates(dir, base) ==
  [ k \in 1..(3 * Len(media_extensions)) |->
      Join(dir, base \o
             (CASE (k - 1) % 3 = 0 -> media_extensions[((k - 1) \div 3) + 1]
                [] (k - 1) % 3 = 1 -> media_extensions_lower[((k - 1) \div 3) + 1]
                [] OTHER -> media_extensions_upper[((k - 1) \div 3) + 1])) ]

DupMarkers == << << "(","1",")" >>, << "(","2",")" >> >>

\* the candidates of the duplicate-index fallback, with the marker of each
DupCandidates(dir, base) ==
  [ k \in 1..(Len(DupMarkers) * Len(media_extensions)) |->
      Join(dir, base
                 \o DupMarkers[((k - 1) \div Len(media_extensions)) + 1]
                 \o media_extensions[((k - 1) % Len(media_extensions)) + 1]) ]

DupMarkerOf(k) == DupMarkers[((k - 1) \div Len(media_extensions)) + 1]

\* the candidates of the parent-directory fallback
ParentCandidates(dir, base) ==
  [ k \in 1..Len(media_extensions) |-> Join(dir, base \o media_extensions[k]) ]

\* (None, None)
NotFound == [found |-> FALSE, media |-> NoPath, suffix |-> << >>, strategy |-> "none"]

\* the lookups with the parent directory tried before the duplicate markers
LookupParentFirst(f, json_dir, json_filename, base_name, current_json_suffix) ==
  LET same == SameDirCandidates(json_dir, base_name)
      dup == DupCandidates(json_dir, base_name)
      parent_dir == Dirname(json_dir)
      par == ParentCandidates(parent_dir, base_name)
      k1 == FirstExisting(f, same)
      k2 == FirstExisting(f, dup)
      k3 == FirstExisting(f, par)
  IN  IF k1 # 0
      THEN [found |-> TRUE, media |-> same[k1],
            suffix |-> current_json_suffix, strategy |-> "same"]
      ELSE IF parent_dir # json_dir /\ k3 # 0
      THEN [found |-> TRUE, media |-> par[k3],
            suffix |-> current_json_suffix, strategy |-> "parent"]
      ELSE IF k2 # 0
      THEN [found |-> TRUE, media |-> dup[k2],
            suffix |-> << >>, strategy |-> "dup"]
      ELSE NotFound

\* lines 96-133: the three lookups, for the base name and the suffix that
\* lines 85-93 derived from the sidecar's name
LookupMedia(f, json_dir, json_filename, base_name, current_json_suffix) ==
  LET same == SameDirCandidates(json_dir, base_name)
      dup == DupCandidates(json_dir, base_name)
      parent_dir == Dirname(json_dir)
      par == ParentCandidates(parent_dir, base_name)
      k1 == FirstExisting(f, same)
      k2 == FirstExisting(f, dup)
      k3 == FirstExisting(f, par)
      guessed_suffix ==
        IF StartsWith(Lower(json_filename), Lower(base_name \o DupMarkerOf(k2)))
        THEN PatternOf(json_filename) ELSE << >>
  IN  IF k1 # 0
      THEN [found |-> TRUE, media |-> same[k1],
            suffix |-> current_json_suffix, strategy |-> "same"]
      ELSE IF k2 # 0
      THEN [found |-> TRUE, media |-> dup[k2],
            suffix |-> guessed_suffix, strategy |-> "dup"]
      ELSE IF parent_dir # json_dir /\ k3 # 0
      THEN [found |-> TRUE, media |-> par[k3],
            suffix |-> current_json_suffix, strategy |-> "parent"]
      ELSE NotFound

\* find_media_file(json_path): found is FALSE for (None, None); strategy
\* names the loop that returned. Lines 85-93 cut off the first pattern k the
\* sidecar's name ends with
find_media_file(f, json_path) ==
  CHOOSE found \in
    { LookupMedia(f, Dirname(json_path), Basename(json_path),
                  StripAt(Basename(json_path), k), PatternAt(k)) :
        k \in { FirstPattern(Basename(json_path)) } } : TRUE

\* ------------------------------------------------------------------------
\* is_pdt and get_pacific_datetime
\* ------------------------------------------------------------------------
\* A datetime with tzinfo=timezone.utc is the number of seconds since
\* 1970-01-01 00:00:00 UTC; the calendar is the proleptic Gregorian one of
\* the datetime module
IsLeap(year) == year % 4 = 0 /\ (year % 100 # 0 \/ year % 400 = 0)

\* days before 1 January of the year, counted from 1 January of year 1
DaysBeforeYear(year) ==
  (year - 1) * 365 + (year - 1) \div 4 - (year - 1) \div 100 + (year - 1) \div 400

DaysBeforeMonthCommon == << 0, 31, 59, 90, 120, 151, 181, 212, 243, 273, 304, 334 >>

DaysBeforeMonth(year, month) ==
  DaysBeforeMonthCommon[month] + (IF month > 2 /\ IsLeap(year) THEN 1 ELSE 0)

\* date(year, month, day).toordinal() - date(1970, 1, 1).toordinal()
DaysSinceEpoch(year, month, day) ==
  DaysBeforeYear(year) + DaysBeforeMonth(year, month) + day
    - (DaysBeforeYear(1970) + 1)

\* datetime(year, month, day, hour, tzinfo=timezone.utc)
Datetime(year, month, day, hour) ==
  DaysSinceEpoch(year, month, day) * 86400 + hour * 3600

\* dt.year of datetime.fromtimestamp(timestamp, tz=timezone.utc)
YearFrom(timestamp, guess) ==
  IF Datetime(guess, 1, 1, 0) > timestamp THEN guess - 1 ELSE guess

YearOf(timestamp) == YearFrom(timestamp, 1970 + (timestamp \div 86400) \div 365)

\* dt.weekday(): Monday is 0 and Sunday is 6; 1 January 1970 was a Thursday
Weekday(dt) == ((dt \div 86400) + 3) % 7

\* dt + timedelta(days=n)
PlusDays(dt, n) == dt + n * 86400

\* dt.replace(hour=h) of a datetime with minute and second 0
ReplaceHour(dt, h) == (dt \div 86400) * 86400 + h * 3600

\* the first Sunday on or after dt
NextSunday(dt) == PlusDays(dt, (6 - Weekday(dt)) % 7)

\* lines 142-145: 8 March 02:00 UTC, moved to the next Sunday, plus 7 days
dst_start(year) == PlusDays(NextSunday(Datetime(year, 3, 8, 2)), 7)

\* the end of the period left at 02:00 UTC
std_start_at_two(year) == NextSunday(Datetime(year, 11, 1, 2))

\* lines 148-152: 1 November 02:00 UTC, moved to the next Sunday, hour 9
std_start(year) == ReplaceHour(NextSunday(Datetime(year, 11, 1, 2)), 9)

\* lines 138-155, for a timestamp datetime.fromtimestamp accepts
InDstPeriod(dt, year) == dst_start(year) <= dt /\ dt < std_start(year)

is_pdt(timestamp) == InDstPeriod(timestamp, YearOf(timestamp))

\* lines 164-167 of get_pacific_datetime
OffsetHours(utc_ts) == IF is_pdt(utc_ts) THEN -7 ELSE -8

\* ------------------------------------------------------------------------
\* process_photos: the arguments of the metadata write
\* ------------------------------------------------------------------------
\* a key the sidecar does not have, or whose value is null: dict.get gives
\* None; a value v that is there is << v >>
None == << >>

Arg(opt, val) == [opt |-> opt, val |-> val]

\* lines 353-361 without the range test
GpsArgsUnchecked(latitude, longitude, altitude) ==
  IF latitude # None /\ longitude # None
       /\ (latitude # << 0 >> \/ longitude # << 0 >>)
  THEN << Arg("GPSLatitude", latitude), Arg("GPSLongitude", longitude) >>
         \o (IF altitude # None /\ altitude # << 0 >>
             THEN << Arg("GPSAltitude", altitude) >> ELSE << >>)
  ELSE << >>

\* lines 353-361: the GPS arguments
GpsArgs(latitude, longitude, altitude) ==
  IF latitude # None /\ longitude # None
       /\ (latitude # << 0 >> \/ longitude # << 0 >>)
       /\ -90 <= latitude[1] /\ latitude[1] <= 90
       /\ -180 <= longitude[1] /\ longitude[1] <= 180
  THEN << Arg("GPSLatitude", latitude), Arg("GPSLongitude", longitude) >>
         \o (IF altitude # None /\ altitude # << 0 >>
             THEN << Arg("GPSAltitude", altitude) >> ELSE << >>)
  ELSE << >>

\* lines 347-366: cmd_args for the date datetime_str, the geoData and the
\* description of the sidecar, and the target file
cmd_args(datetime_str, latitude, longitude, altitude, description, media_file) ==
  << Arg("overwrite_original_in_place", None), Arg("q", None),
     Arg("DateTimeOriginal", << datetime_str >>),
     Arg("FileCreateDate", << datetime_str >>),
     Arg("FileModifyDate", << datetime_str >>) >>
  \o GpsArgs(latitude, longitude, altitude)
  \o (IF description # << >> THEN << Arg("Description", description) >> ELSE << >>)
  \o << Arg("file", media_file) >>

\* no sidecar has been read
NoData ==
  [timestamp |-> 0, latitude |-> None, longitude |-> None, altitude |-> None,
   description |-> << >>]

NothingComputed ==
  [offset_hours |-> 0, cmd_args |-> << >>, base_name |-> << >>,
   json_original_base |-> << >>, base_of_set |-> << >>]

\* ------------------------------------------------------------------------
\* process_photos: one iteration of the loop over json_files_to_process
\* ------------------------------------------------------------------------
\* what a sidecar file holds, as far as the loop distinguishes it
ContentKinds == { "ok", "bad_json", "no_timestamp", "bad_timestamp" }

\* the result of the metadata write: return code 0, a non-zero return code,
\* or None (the tool could not be executed)
WriteResults == { "ok", "error", "none" }

\* what the read-only probe of a .heic file reports: "jpeg" is a non-zero
\* return code with "looks more like a JPEG" in stderr, "other" anything else
CheckResults == { "jpeg", "other" }

\* what an iteration leaves: the file locations, the handled set, the
\* increments of the three counters, and what the iteration did (its
\* outcome, the final current_json_path, the media file, the target of the
\* metadata write, whether the media file was renamed, how many files
\* another actor removed meanwhile, and what the probe said, "none" when
\* no probe was run)
IterResult(f, processed, upd, err, skp, outcome, json, media, wrote, renamed, removed) ==
  [ fs |-> f, processed |-> processed, updated |-> upd, error |-> err,
    skipped |-> skp, outcome |-> outcome, json |-> json, media |-> media,
    wrote |-> wrote, renamed |-> renamed, removed |-> removed,
    probe |-> "none" ]

\* lines 347-383: build the command, run the tool on media_file, count; one
\* result for each thing the tool may answer
WriteMetadata(f, processed, current_json_path, media_file, renamed, removed) ==
  { IF wr = "ok"
    THEN IterResult(f, processed \cup {current_json_path}, 1, 0, 0, "updated",
                    current_json_path, media_file, media_file, renamed, removed)
    ELSE IterResult(f, processed \cup {current_json_path}, 0, 1, 0,
                    IF wr = "error" THEN "tool_error" ELSE "tool_not_run",
                    current_json_path, media_file, media_file, renamed, removed) :
    wr \in WriteResults }

\* the two moves, with the write and the handled set still on the old paths
MovesWithStalePaths(f, processed, current_json_path, media_file, new_jpg_media_file, new_jpg_json_file, vanish) ==
  LET moved == Move(f, media_file, new_jpg_media_file)
  IN  { IterResult(f, processed \cup {current_json_path}, 0, 1, 0,
                   "rename_failed", current_json_path, media_file, NoPath, FALSE, 0),
        IterResult(moved, processed \cup {current_json_path}, 0, 1, 0,
                   "rename_partial", current_json_path, new_jpg_media_file,
                   NoPath, TRUE, 0) }
      \cup { IterResult(Move(moved, current_json_path, new_jpg_json_file),
                         processed \cup {current_json_path},
                         IF wr = "ok" THEN 1 ELSE 0, IF wr = "ok" THEN 0 ELSE 1, 0,
                         IF wr = "ok" THEN "updated" ELSE "tool_error",
                         current_json_path, new_jpg_media_file, media_file,
                         TRUE, 0) : wr \in WriteResults }

\* the two moves with the metadata written after a failed sidecar move too
MovesWritingAfterPartial(f, processed, current_json_path, media_file, new_jpg_media_file, new_jpg_json_file, vanish) ==
  LET moved == Move(f, media_file, new_jpg_media_file)
  IN  { IterResult(f, processed \cup {current_json_path}, 0, 1, 0,
                   "rename_failed", current_json_path, media_file, NoPath, FALSE, 0) }
      \cup WriteMetadata(moved, processed, current_json_path,
                         new_jpg_media_file, TRUE, 0)
      \cup WriteMetadata(Move(moved, current_json_path, new_jpg_json_file),
                         processed \cup {new_jpg_json_file},
                         new_jpg_json_file, new_jpg_media_file, TRUE, 0)

\* the two moves with the old path of the sidecar marked as handled
MovesForgettingNewPath(f, processed, current_json_path, media_file, new_jpg_media_file, new_jpg_json_file, vanish) ==
  LET moved == Move(f, media_file, new_jpg_media_file)
  IN  { IterResult(f, processed \cup {current_json_path}, 0, 1, 0,
                   "rename_failed", current_json_path, media_file, NoPath, FALSE, 0),
        IterResult(moved, processed \cup {current_json_path}, 0, 1, 0,
                   "rename_partial", current_json_path, new_jpg_media_file,
                   NoPath, TRUE, 0) }
      \cup WriteMetadata(Move(moved, current_json_path, new_jpg_json_file),
                         processed \cup {current_json_path},
                         current_json_path, new_jpg_media_file, TRUE, 0)

\* lines 328-345: the two moves. mv: which move raises; vanish: another
\* actor may remove the sidecar between the first move and the test of
\* line 332
PerformMoves(f, processed, current_json_path, media_file, new_jpg_media_file, new_jpg_json_file, vanish) ==
  LET moved == Move(f, media_file, new_jpg_media_file)
      without == [moved EXCEPT ![FileAt(moved, current_json_path)] = NoPath]
  IN  { IterResult(f, processed \cup {current_json_path}, 0, 1, 0,
                   "rename_failed", current_json_path, media_file, NoPath, FALSE, 0),
        IterResult(moved, processed \cup {current_json_path}, 0, 1, 0,
                   "rename_partial", current_json_path, new_jpg_media_file,
                   NoPath, TRUE, 0) }
      \cup WriteMetadata(Move(moved, current_json_path, new_jpg_json_file),
                         processed \cup {new_jpg_json_file},
                         new_jpg_json_file, new_jpg_media_file, TRUE, 0)
      \cup (IF vanish
            THEN WriteMetadata(without, processed \cup {current_json_path},
                               current_json_path, new_jpg_media_file, TRUE, 1)
            ELSE {})

\* the two moves without the test for existing targets
RenameUnchecked(f, processed, current_json_path, media_file, new_jpg_media_file, new_jpg_json_file, vanish) ==
  PerformMoves(f, processed, current_json_path, media_file,
               new_jpg_media_file, new_jpg_json_file, vanish)

\* lines 318-345: the coupled rename of media file and sidecar, refused when
\* a target exists
PerformRenames(f, processed, current_json_path, media_file, new_jpg_media_file, new_jpg_json_file, vanish) ==
  IF Exists(f, new_jpg_media_file) \/ Exists(f, new_jpg_json_file)
  THEN { IterResult(f, processed \cup {current_json_path}, 0, 1, 0,
                    "rename_conflict", current_json_path, media_file, NoPath, FALSE, 0) }
  ELSE PerformMoves(f, processed, current_json_path, media_file,
                    new_jpg_media_file, new_jpg_json_file, vanish)

\* lines 286-316: the probe said JPEG; compute the new names
RenameHeic(f, processed, current_json_path, found, vanish) ==
  LET media_file == found.media
      json_suffix == found.suffix
      media_name == Basename(media_file)
      base_name_no_ext == SplitExtRoot(media_name)
      new_jpg_media_file == Join(Dirname(media_file), base_name_no_ext \o EXT_JPG)
      json_original_base == StripPattern(Basename(current_json_path))
      new_jpg_json_file ==
        Join(Dirname(media_file), base_name_no_ext \o EXT_JPG \o json_suffix)
  IN  IF json_suffix = << >>
      THEN { IterResult(f, processed \cup {current_json_path}, 0, 1, 0,
                        "no_suffix", current_json_path, media_file, NoPath, FALSE, 0) }
      ELSE IF Lower(SplitExtRoot(media_name)) # Lower(json_original_base)
      THEN { IterResult(f, processed \cup {current_json_path}, 0, 1, 0,
                        "base_mismatch", current_json_path, media_file, NoPath, FALSE, 0) }
      ELSE PerformRenames(f, processed, current_json_path, media_file,
                          new_jpg_media_file, new_jpg_json_file, vanish)

\* lines 283-383: a .heic file is probed first and renamed if the probe
\* says it is a JPEG; then the metadata is written
AfterProbe(f, processed, current_json_path, found, vanish, check_result) ==
  { [r EXCEPT !.probe = check_result] :
      r \in IF check_result = "jpeg"
            THEN RenameHeic(f, processed, current_json_path, found, vanish)
            ELSE WriteMetadata(f, processed, current_json_path, found.media, FALSE, 0) }

RenameOrWrite(f, processed, current_json_path, found, vanish) ==
  IF EndsWith(Lower(Basename(found.media)), EXT_HEIC)
  THEN UNION { AfterProbe(f, processed, current_json_path, found, vanish, c) :
                 c \in CheckResults }
  ELSE WriteMetadata(f, processed, current_json_path, found.media, FALSE, 0)

\* lines 270-276: no media file, or the media file and its suffix
WithMedia(f, processed, current_json_path, found, vanish) ==
  IF ~ found.found
  THEN { IterResult(f, processed \cup {current_json_path}, 0, 0, 1,
                    "no_media", current_json_path, NoPath, NoPath, FALSE, 0) }
  ELSE RenameOrWrite(f, processed, current_json_path, found, vanish)

\* lines 242-276 and 385-393: parse the sidecar, resolve the timestamp, find
\* the media file
ReadSidecar(f, processed, current_json_path, kind, vanish) ==
      CASE kind = "bad_json" ->
             { IterResult(f, processed \cup {current_json_path}, 0, 1, 0,
                          "bad_json", current_json_path, NoPath, NoPath, FALSE, 0) }
        [] kind = "no_timestamp" ->
             { IterResult(f, processed \cup {current_json_path}, 0, 0, 0,
                          "no_timestamp", current_json_path, NoPath, NoPath, FALSE, 0) }
        [] kind = "bad_timestamp" ->
             { IterResult(f, processed \cup {current_json_path}, 0, 1, 0,
                          "bad_timestamp", current_json_path, NoPath, NoPath, FALSE, 0) }
        [] OTHER ->
             UNION { WithMedia(f, processed, current_json_path, found, vanish) :
                       found \in { find_media_file(f, current_json_path) } }

\* lines 229-393: the body of the loop for current_json_path: the set of
\* results it can have; content maps each file to what it holds
Iteration(f, content, processed, current_json_path, vanish) ==
  IF current_json_path \in processed
  THEN { IterResult(f, processed, 0, 0, 0, "already_handled",
                    current_json_path, NoPath, NoPath, FALSE, 0) }
  ELSE IF ~ Exists(f, current_json_path)
  THEN { IterResult(f, processed, 0, 0, 0, "vanished",
                    current_json_path, NoPath, NoPath, FALSE, 0) }
  ELSE ReadSidecar(f, processed, current_json_path,
                   content[FileAt(f, current_json_path)], vanish)

\* ------------------------------------------------------------------------
\* The two passes that reorganise the tree
\* ------------------------------------------------------------------------
no_metadata_folder == Join(source_folder, NO_METADATA_FOUND)

json_folder == Join(source_folder, JSON_METADATA)

\* os.makedirs(d, exist_ok=True) raises when d exists and is not a directory
MakedirsRaises(f, d) == Exists(f, d)

\* the base name of a sidecar as the quarantine pass derives it: the first
\* pattern of the set json_patterns_lower, in the set's iteration order,
\* that the lower-cased name ends with is cut off
StripAny(name, hits) ==
  IF hits = {} THEN name
  ELSE DropLast(name, Len(json_patterns[CHOOSE k \in hits : TRUE]))

StripPatternOfSet(name) ==
  CHOOSE base \in { StripAny(name, hits) : hits \in { JsonHits(name) } } : TRUE

\* lines 424-435: the (lower-cased base name, directory) pairs that have a
\* sidecar now
json_bases_existing(f, ds) ==
  { << Lower(StripPatternOfSet(Basename(p))), Dirname(p) >> :
      p \in { q \in WalkFiles(f, ds, source_folder) : IsJsonName(Basename(q)) } }

\* the selection that looks for the base name in any directory
OrphansByNameOnly(files, bases) ==
  { p \in files :
      /\ IsMediaName(Basename(p))
      /\ \A b \in bases : b[1] # Lower(SplitExtRoot(Basename(p))) }

\* lines 439-449: the media files the second walk of the quarantine pass
\* selects for the move
OrphansAmong(files, bases) ==
  { p \in files :
      /\ IsMediaName(Basename(p))
      /\ << Lower(SplitExtRoot(Basename(p))), Dirname(p) >> \notin bases }

Orphans(f, ds) ==
  UNION { OrphansAmong(WalkFiles(f, ds, source_folder), bases) :
            bases \in { json_bases_existing(f, ds) } }

\* lines 454-460: the first free destination name(counter)ext
RECURSIVE QuarantineDestFrom(_, _, _)
QuarantineDestFrom(f, filename, counter) ==
  LET dest_path ==
        Join(no_metadata_folder,
             SplitExtRoot(filename) \o << "(" >> \o IntToStr(counter)
               \o << ")" >> \o SplitExtExt(filename))
  IN  IF Exists(f, dest_path)
      THEN QuarantineDestFrom(f, filename, counter + 1)
      ELSE dest_path

\* the destination that ignores what the quarantine folder holds
QuarantineDestClobbering(f, filename) == Join(no_metadata_folder, filename)

QuarantineDest(f, filename) ==
  IF Exists(f, Join(no_metadata_folder, filename))
  THEN QuarantineDestFrom(f, filename, 1)
  ELSE Join(no_metadata_folder, filename)

\* lines 524-530: the first free destination name_dup<counter>ext
RECURSIVE ArchiveDestFrom(_, _, _)
ArchiveDestFrom(f, filename, counter) ==
  LET dest_path ==
        Join(json_folder,
             SplitExtRoot(filename) \o << "_","d","u","p" >>
               \o IntToStr(counter) \o SplitExtExt(filename))
  IN  IF Exists(f, dest_path)
      THEN ArchiveDestFrom(f, filename, counter + 1)
      ELSE dest_path

ArchiveDest(f, filename) ==
  IF Exists(f, Join(json_folder, filename))
  THEN ArchiveDestFrom(f, filename, 1)
  ELSE Join(json_folder, filename)

\* lines 449-467: the moves of the quarantine pass over the selected files
\* in walk order, from position i on; fails holds the files whose
\* shutil.move raises. The result is the file locations and moved_count
RECURSIVE QuarantineMoves(_, _, _, _, _)
QuarantineMoves(f, order, i, fails, moved_count) ==
  IF i > Len(order) THEN [fs |-> f, moved |-> moved_count]
  ELSE IF ~ Exists(f, order[i]) \/ order[i] \in fails
  THEN QuarantineMoves(f, order, i + 1, fails, moved_count)
  ELSE QuarantineMoves(Move(f, order[i], QuarantineDest(f, Basename(order[i]))),
                       order, i + 1, fails, moved_count + 1)

\* lines 514-535: the moves of the archive pass
RECURSIVE ArchiveMoves(_, _, _, _, _)
ArchiveMoves(f, order, i, fails, moved_count) ==
  IF i > Len(order) THEN [fs |-> f, moved |-> moved_count]
  ELSE IF ~ Exists(f, order[i]) \/ order[i] \in fails
  THEN ArchiveMoves(f, order, i + 1, fails, moved_count)
  ELSE ArchiveMoves(Move(f, order[i], ArchiveDest(f, Basename(order[i]))),
                    order, i + 1, fails, moved_count + 1)

\* the selection that takes the sidecars with a lower-case suffix only
RemainingJsonCaseSensitive(f, ds) ==
  { p \in WalkFiles(f, ds, source_folder) : IsJsonNameCaseSensitive(Basename(p)) }

\* lines 511-518: the sidecars the archive pass selects
RemainingJson(f, ds) ==
  { p \in WalkFiles(f, ds, source_folder) : IsJsonName(Basename(p)) }

\* ------------------------------------------------------------------------
\* The trees the program is started on
\* ------------------------------------------------------------------------
FileIds == 1..Len(Candidates)

\* the proper ancestors of path p, from the source folder down
Ancestors(p) == { SubSeq(p, 1, k) : k \in 1..(Len(p) - 1) }

\* a set of candidates can be one tree: no path is both a file and a directory
Consistent(S) ==
  \A a, b \in S : Candidates[a] \notin Ancestors(Candidates[b])

InitialTrees ==
  { S \in SUBSET FileIds : Cardinality(S) <= MaxFiles /\ Consistent(S) }

TzModes == { "pacific", "utc", "est" }

\* the pre-flight "-ver" run: return code 0, non-zero, or None
PreflightResults == { "ok", "error", "none" }

NoInvocation ==
  [argc |-> 0, isdir |-> "unread", tz |-> "unread", preflight |-> "unread"]

NoIteration ==
  [outcome |-> "", orig |-> NoPath, json |-> NoPath, media |-> NoPath,
   wrote |-> NoPath, renamed |-> FALSE, probe |-> "none"]

VARIABLES
  fs,                    \* file id -> its path now, NoPath when it is gone
  dirs,                  \* the directories that exist
  kinds,                 \* file id -> what the file holds (sidecars)
  readmes,               \* the folders that got a README.txt
  ext,                   \* files removed by another actor so far
  run,                   \* number of the current launch of the program
  at_launch,             \* the tree as the current launch found it
  history,               \* one summary per finished launch
  pc,                    \* position of the main program
  inv,                   \* sys.argv and the environment of this launch
  exit_code,             \* the process's exit status, -1 while it runs
  crashed,               \* an exception left the program unhandled
  final_marker,          \* PROCESSING_COMPLETE was logged
  json_files,            \* json_files_to_process
  idx,                   \* iterations of the loop done
  total_files_scanned,
  updated_photos,
  error_photos,
  skipped_no_media,
  processed_json_paths,
  writes,                \* the targets of the metadata writes of this launch
  matched,               \* (sidecar, media file) of every Updated record
  last,                  \* what the last iteration did
  parsed,                \* the sidecar files the iterations opened, in order
  moved_media,           \* moved_count of the quarantine pass
  moved_json,            \* moved_count of the archive pass
  move_errors,           \* "Error moving" records of the two passes
  data,                  \* what json.load returned for the sidecar at hand
  computed               \* what the iteration derived from data

vars ==
  << fs, dirs, kinds, readmes, ext, run, at_launch, history, pc, inv,
     exit_code, crashed, final_marker, json_files, idx, total_files_scanned, updated_photos,
     error_photos, skipped_no_media, processed_json_paths, writes, matched,
     last, parsed, moved_media, moved_json, move_errors, data, computed >>

treeVars == << fs, dirs, readmes >>

loopVars ==
  << json_files, idx, total_files_scanned, updated_photos, error_photos,
     skipped_no_media, processed_json_paths, writes, matched, last, parsed >>

passVars == << moved_media, moved_json, move_errors >>

dataVars == << data, computed >>

\* the state of a launch before its first statement
FreshLaunch ==
  /\ pc = "start"
  /\ inv = NoInvocation
  /\ exit_code = -1
  /\ crashed = FALSE
  /\ final_marker = FALSE
  /\ json_files = << >>
  /\ idx = 0
  /\ total_files_scanned = 0
  /\ updated_photos = 0
  /\ error_photos = 0
  /\ skipped_no_media = 0
  /\ processed_json_paths = {}
  /\ writes = << >>
  /\ matched = {}
  /\ last = NoIteration
  /\ parsed = << >>
  /\ moved_media = 0
  /\ moved_json = 0
  /\ move_errors = 0

\* the file locations and the directories of the tree made of the candidates S
TreeOf(S) == [id \in S |-> Candidates[id]]

DirsOf(S) == {source_folder} \cup UNION { Ancestors(Candidates[id]) : id \in S }

\* the files of the tree S whose content a launch may read
Readable(S) ==
  { id \in S : Candidates[id] \in find_json_files(TreeOf(S), DirsOf(S), source_folder) }

Init ==
  /\ \E S \in InitialTrees :
       /\ fs = TreeOf(S)
       /\ dirs = DirsOf(S)
       /\ \E k \in [Readable(S) -> ContentKinds] :
            kinds = [id \in S |-> IF id \in Readable(S) THEN k[id] ELSE "ok"]
  /\ readmes = {}
  /\ ext = 0
  /\ run = 1
  /\ at_launch = [fs |-> fs, dirs |-> dirs, readmes |-> {}]
  /\ history = << >>
  /\ FreshLaunch
  /\ data = NoData
  /\ computed = NothingComputed

\* ------------------------------------------------------------------------
\* The main program
\* ------------------------------------------------------------------------
\* leaving with status 0 where the program calls sys.exit(1)
ExitQuietly(i) ==
  /\ inv' = i
  /\ pc' = "exit"
  /\ exit_code' = 0
  /\ history' = Append(history, [code |-> 0, completed |-> FALSE,
                                 moved_media |-> 0, moved_json |-> 0,
                                 move_errors |-> 0])

\* sys.exit(1)
Exit1(i) ==
  /\ inv' = i
  /\ pc' = "exit"
  /\ exit_code' = 1
  /\ history' = Append(history, [code |-> 1, completed |-> FALSE,
                                 moved_media |-> 0, moved_json |-> 0,
                                 move_errors |-> 0])

\* the checks of lines 564-586 with a failed pre-flight only logged
ProceedAnyway(i) ==
  /\ inv' = i
  /\ pc' = "scan"
  /\ UNCHANGED << exit_code, history >>

\* the outcome of the pre-flight run of lines 582-588
AfterPreflight(i) ==
  IF i.preflight # "ok" THEN Exit1(i)
  ELSE /\ inv' = i
       /\ pc' = "scan"
       /\ UNCHANGED << exit_code, history >>

\* lines 564-588: the argument count, the source folder, the timezone mode
\* and the pre-flight run of the tool, each read only if the checks before
\* it passed ("unread" otherwise)
CheckInvocation ==
  /\ pc = "start"
  /\ \E argc \in {3, 4} :
       IF argc # 4
       THEN Exit1([argc |-> argc, isdir |-> "unread", tz |-> "unread",
                   preflight |-> "unread"])
       ELSE \E isdir \in {"yes", "no"} :
              IF isdir = "no"
              THEN Exit1([argc |-> argc, isdir |-> isdir, tz |-> "unread",
                          preflight |-> "unread"])
              ELSE \E tz \in TzModes :
                     IF tz \notin {"pacific", "utc"}
                     THEN Exit1([argc |-> argc, isdir |-> isdir, tz |-> tz,
                                 preflight |-> "unread"])
                     ELSE \E pre \in PreflightResults :
                            AfterPreflight([argc |-> argc, isdir |-> isdir,
                                            tz |-> tz, preflight |-> pre])
  /\ UNCHANGED << fs, dirs, kinds, readmes, ext, run, at_launch, crashed, final_marker >>
  /\ UNCHANGED loopVars
  /\ UNCHANGED passVars
  /\ UNCHANGED dataVars

\* the scan with the two passes left out when no sidecar was found
ScanEndingRun ==
  /\ pc = "scan"
  /\ \E found \in { find_json_files(fs, dirs, source_folder) } :
     \E order \in WalkOrders(found) :
       /\ json_files' = order
       /\ total_files_scanned' = Len(order)
       /\ pc' = IF Len(order) = 0 THEN "summary" ELSE "loop"
  /\ UNCHANGED << fs, dirs, kinds, readmes, ext, run, at_launch, history, inv, exit_code,
                  crashed, final_marker, idx, updated_photos, error_photos,
                  skipped_no_media, processed_json_paths, writes, matched, last,
                  parsed >>
  /\ UNCHANGED passVars
  /\ UNCHANGED dataVars

\* process_photos, lines 206-227: the scan; with no sidecar the function
\* returns 0, 0, 0, 0 at once
Scan ==
  /\ pc = "scan"
  /\ \E found \in { find_json_files(fs, dirs, source_folder) } :
     \E order \in WalkOrders(found) :
       /\ json_files' = order
       /\ total_files_scanned' = Len(order)
       /\ pc' = IF Len(order) = 0 THEN "quarantine" ELSE "loop"
  /\ UNCHANGED << fs, dirs, kinds, readmes, ext, run, at_launch, history, inv, exit_code,
                  crashed, final_marker, idx, updated_photos, error_photos,
                  skipped_no_media, processed_json_paths, writes, matched, last,
                  parsed >>
  /\ UNCHANGED passVars
  /\ UNCHANGED dataVars

\* every branch of the loop body, the except clauses included, ends the
\* iteration only: after iteration i of n the loop takes the next sidecar or
\* the function returns, whatever the outcome was
AbortOnFailure(outcome, i, n) ==
  IF outcome \in {"bad_json", "bad_timestamp", "no_media", "rename_conflict",
                  "tool_error", "tool_not_run"}
  THEN "exit"
  ELSE IF i = n THEN "quarantine" ELSE "loop"

AfterIteration(outcome, i, n) == IF i = n THEN "quarantine" ELSE "loop"

\* process_photos, lines 229-396: one iteration of the loop; the function
\* returns after the last one
LoopIteration ==
  /\ pc = "loop"
  /\ idx < Len(json_files)
  /\ \E r \in Iteration(fs, kinds, processed_json_paths, json_files[idx + 1],
                        ext < MaxExternal) :
       /\ fs' = r.fs
       /\ processed_json_paths' = r.processed
       /\ updated_photos' = updated_photos + r.updated
       /\ error_photos' = error_photos + r.error
       /\ skipped_no_media' = skipped_no_media + r.skipped
       /\ writes' = IF r.wrote = NoPath THEN writes ELSE Append(writes, r.wrote)
       /\ matched' = IF r.outcome = "updated"
                     THEN matched \cup { << FileAt(fs, json_files[idx + 1]),
                                            FileAt(r.fs, r.media) >> }
                     ELSE matched
       /\ last' = [outcome |-> r.outcome, orig |-> json_files[idx + 1],
                   json |-> r.json, media |-> r.media, wrote |-> r.wrote,
                   renamed |-> r.renamed, probe |-> r.probe]
       /\ parsed' = IF r.outcome \in {"already_handled", "vanished"}
                    THEN parsed
                    ELSE Append(parsed, FileAt(fs, json_files[idx + 1]))
       /\ ext' = ext + r.removed
       /\ pc' = AfterIteration(r.outcome, idx + 1, Len(json_files))
  /\ idx' = idx + 1
  /\ UNCHANGED << dirs, kinds, readmes, run, at_launch, history, inv, exit_code, crashed,
                  final_marker, json_files, total_files_scanned >>
  /\ UNCHANGED passVars
  /\ UNCHANGED dataVars

\* an exception nobody catches: the interpreter prints the traceback and
\* exits with status 1
Crash ==
  /\ pc' = "exit"
  /\ exit_code' = 1
  /\ crashed' = TRUE
  /\ history' = Append(history, [code |-> 1, completed |-> FALSE,
                                 moved_media |-> moved_media,
                                 moved_json |-> moved_json,
                                 move_errors |-> move_errors])

\* the sets of files whose shutil.move may raise in one pass
FailSets(paths) ==
  { F \in SUBSET paths : Cardinality(F) + move_errors <= MaxMoveErrors }

\* the enumerated files another actor removes while a pass runs: early,
\* before the pass tests that the file exists (lines 451, 521), or late,
\* between that test and shutil.move, which then raises (a raising move
\* that counts towards MaxMoveErrors like any other)
Vanishings(paths) ==
  { v \in [early : SUBSET paths, late : SUBSET paths] :
      /\ v.early \cap v.late = {}
      /\ Cardinality(v.early) + Cardinality(v.late) + ext <= MaxExternal
      /\ Cardinality(v.late) + move_errors <= MaxMoveErrors }

\* the tree without the files at the paths
Removed(f, paths) ==
  [id \in DOMAIN f |-> IF f[id] \in paths THEN NoPath ELSE f[id]]

\* move_files_without_matching_json, lines 400-495
QuarantinePass ==
  /\ pc = "quarantine"
  /\ IF MakedirsRaises(fs, no_metadata_folder)
     THEN /\ Crash
          /\ UNCHANGED << fs, dirs, readmes, ext, moved_media, move_errors >>
     ELSE \E files_to_move \in { Orphans(fs, dirs) } :
            \E order \in WalkOrders(files_to_move) :
              \E v \in Vanishings(files_to_move) :
                \E fails \in { F \in FailSets(files_to_move \ (v.early \cup v.late)) :
                               Cardinality(F) + Cardinality(v.late)
                                 + move_errors <= MaxMoveErrors } :
                  \E r \in { QuarantineMoves(Removed(fs, v.early \cup v.late),
                                              order, 1, fails, 0) } :
                    /\ fs' = r.fs
                    /\ dirs' = dirs \cup {no_metadata_folder}
                    /\ moved_media' = r.moved
                    /\ move_errors' = move_errors + Cardinality(fails)
                                        + Cardinality(v.late)
                    /\ ext' = ext + Cardinality(v.early) + Cardinality(v.late)
                    /\ readmes' = IF r.moved > 0
                                  THEN readmes \cup {no_metadata_folder}
                                  ELSE readmes
                    /\ pc' = "archive"
                    /\ UNCHANGED << exit_code, crashed, history >>
  /\ UNCHANGED << kinds, run, at_launch, inv, final_marker, moved_json >>
  /\ UNCHANGED loopVars
  /\ UNCHANGED dataVars

\* organize_json_files, lines 498-558
ArchivePass ==
  /\ pc = "archive"
  /\ IF MakedirsRaises(fs, json_folder)
     THEN /\ Crash
          /\ UNCHANGED << fs, dirs, readmes, ext, moved_json, move_errors >>
     ELSE \E json_files_to_move \in { RemainingJson(fs, dirs) } :
            \E order \in WalkOrders(json_files_to_move) :
              \E v \in Vanishings(json_files_to_move) :
                \E fails \in { F \in FailSets(json_files_to_move \ (v.early \cup v.late)) :
                               Cardinality(F) + Cardinality(v.late)
                                 + move_errors <= MaxMoveErrors } :
                  \E r \in { ArchiveMoves(Removed(fs, v.early \cup v.late),
                                              order, 1, fails, 0) } :
                    /\ fs' = r.fs
                    /\ dirs' = dirs \cup {json_folder}
                    /\ moved_json' = r.moved
                    /\ move_errors' = move_errors + Cardinality(fails)
                                        + Cardinality(v.late)
                    /\ ext' = ext + Cardinality(v.early) + Cardinality(v.late)
                    /\ readmes' = IF r.moved > 0
                                  THEN readmes \cup {json_folder}
                                  ELSE readmes
                    /\ pc' = "summary"
                    /\ UNCHANGED << exit_code, crashed, history >>
  /\ UNCHANGED << kinds, run, at_launch, inv, final_marker, moved_media >>
  /\ UNCHANGED loopVars
  /\ UNCHANGED dataVars

\* lines 597-605: the summary and the final marker; the script ends and the
\* process exits with status 0
Summary ==
  /\ pc = "summary"
  /\ final_marker' = TRUE
  /\ pc' = "exit"
  /\ exit_code' = 0
  /\ history' = Append(history, [code |-> 0, completed |-> TRUE,
                                 moved_media |-> moved_media,
                                 moved_json |-> moved_json,
                                 move_errors |-> move_errors])
  /\ UNCHANGED << fs, dirs, kinds, readmes, ext, run, at_launch, inv, crashed >>
  /\ UNCHANGED loopVars
  /\ UNCHANGED passVars
  /\ UNCHANGED dataVars

\* ------------------------------------------------------------------------
\* The environment
\* ------------------------------------------------------------------------
\* the program is launched again on the tree the last launch left
Relaunch ==
  /\ pc = "exit"
  /\ exit_code = 0
  /\ run < MaxRuns
  /\ run' = run + 1
  /\ at_launch' = [fs |-> fs, dirs |-> dirs, readmes |-> readmes]
  /\ pc' = "start"
  /\ inv' = NoInvocation
  /\ exit_code' = -1
  /\ crashed' = FALSE
  /\ final_marker' = FALSE
  /\ json_files' = << >>
  /\ idx' = 0
  /\ total_files_scanned' = 0
  /\ updated_photos' = 0
  /\ error_photos' = 0
  /\ skipped_no_media' = 0
  /\ processed_json_paths' = {}
  /\ writes' = << >>
  /\ matched' = {}
  /\ last' = NoIteration
  /\ parsed' = << >>
  /\ moved_media' = 0
  /\ moved_json' = 0
  /\ move_errors' = 0
  /\ UNCHANGED << fs, dirs, kinds, readmes, ext, history >>
  /\ UNCHANGED dataVars

\* another actor removes a sidecar that the loop has not reached yet
ExternalRemove ==
  /\ pc = "loop"
  /\ ext < MaxExternal
  /\ \E i \in (idx + 1)..Len(json_files) :
       /\ Exists(fs, json_files[i])
       /\ fs' = [fs EXCEPT ![FileAt(fs, json_files[i])] = NoPath]
  /\ ext' = ext + 1
  /\ UNCHANGED << dirs, kinds, readmes, run, at_launch, history, pc, inv, exit_code,
                  crashed, final_marker >>
  /\ UNCHANGED loopVars
  /\ UNCHANGED passVars
  /\ UNCHANGED dataVars

Next ==
  \/ CheckInvocation
  \/ Scan
  \/ LoopIteration
  \/ QuarantinePass
  \/ ArchivePass
  \/ Summary
  \/ ExternalRemove

\* one launch of the program
Spec == Init /\ [][Next]_vars

\* launches one after the other on the same tree
RelaunchNext == Next \/ Relaunch

RelaunchSpec == Init /\ [][RelaunchNext]_vars

\* the program is sequential and every call of the tool returns: a launch
\* that can take a step takes it
Program ==
  \/ CheckInvocation
  \/ Scan
  \/ LoopIteration
  \/ QuarantinePass
  \/ ArchivePass
  \/ Summary

\* the liveness checks start from the trees made of these files only: the
\* .heic and the .jpg file, two sidecars, and the plain file that
\* has the quarantine folder's name
FairFiles == { 1, 2, 4, 6, 8 }

FairInit == Init /\ DOMAIN fs \subseteq FairFiles

FairSpec == FairInit /\ [][Next]_vars /\ WF_vars(Program)

\* ------------------------------------------------------------------------
\* find_media_file on its own
\* ------------------------------------------------------------------------
\* the files of the trees find_media_file is called on by itself: the
\* candidates above and, with them, a media file whose name only starts with
\* the base name and a duplicate-index file in the subfolder
LookupCandidates ==
  Candidates \o
  << << SRC, BASE \o << "b" >> \o EXT_JPG >>,
     << SRC, SUB, BASE \o << "(","1",")" >> \o EXT_JPG >> >>

LookupFiles == { 1, 2, 3, 4, 9, 10, 15, 16 }

MaxLookupFiles == 4

LookupTrees ==
  { S \in SUBSET LookupFiles : Cardinality(S) <= MaxLookupFiles }

LookupInit ==
  /\ \E S \in LookupTrees :
       /\ fs = [id \in S |-> LookupCandidates[id]]
       /\ dirs = {source_folder} \cup
                   UNION { Ancestors(LookupCandidates[id]) : id \in S }
       /\ kinds = [id \in S |-> "ok"]
  /\ readmes = {}
  /\ ext = 0
  /\ run = 1
  /\ at_launch = [fs |-> fs, dirs |-> dirs, readmes |-> {}]
  /\ history = << >>
  /\ FreshLaunch
  /\ data = NoData
  /\ computed = NothingComputed

\* find_media_file(json_path) for a sidecar of the tree; last keeps the
\* argument, the returned path and the loop that returned
Lookup ==
  /\ pc \in {"start", "lookup"}
  /\ \E id \in DOMAIN fs :
       /\ IsJsonName(Basename(fs[id]))
       /\ \E found \in { find_media_file(fs, fs[id]) } :
            last' = [outcome |-> found.strategy, orig |-> fs[id],
                     json |-> fs[id], media |-> found.media, wrote |-> NoPath,
                     renamed |-> FALSE, probe |-> "none"]
  /\ pc' = "lookup"
  /\ UNCHANGED << fs, dirs, kinds, readmes, ext, run, at_launch, history, inv,
                  exit_code, crashed, final_marker, json_files, idx,
                  total_files_scanned, updated_photos, error_photos,
                  skipped_no_media, processed_json_paths, writes, matched,
                  parsed >>
  /\ UNCHANGED passVars
  /\ UNCHANGED dataVars

LookupSpec == LookupInit /\ [][Lookup]_vars

\* ------------------------------------------------------------------------
\* get_pacific_datetime on its own
\* ------------------------------------------------------------------------
FirstYear == 2007

LastYear == 2030

\* the times of day the timestamps are taken at: midnight, 02:00, 09:00 and
\* 10:00 UTC, the second before each, and the last second of the day
DaySeconds == { 0, 7199, 7200, 32399, 32400, 35999, 36000, 86399 }

\* a launch that has read nothing yet, on a tree of one media file
IdleOnOneFile ==
  /\ fs = TreeOf({2})
  /\ dirs = DirsOf({2})
  /\ kinds = [id \in {2} |-> "ok"]
  /\ readmes = {}
  /\ ext = 0
  /\ run = 1
  /\ at_launch = [fs |-> fs, dirs |-> dirs, readmes |-> {}]
  /\ history = << >>
  /\ FreshLaunch
  /\ computed = NothingComputed

\* photoTakenTime.timestamp is one of the chosen times of a day of a year
TimeInit ==
  /\ IdleOnOneFile
  /\ \E year \in FirstYear..LastYear :
       \E day \in 0..(IF IsLeap(year) THEN 365 ELSE 364) :
         \E s \in DaySeconds :
           data = [NoData EXCEPT
                     !.timestamp = PlusDays(Datetime(year, 1, 1, 0), day) + s]

\* get_pacific_datetime(utc_timestamp): the offset it chooses
ConvertTimestamp ==
  /\ pc = "start"
  /\ computed' = [computed EXCEPT !.offset_hours = OffsetHours(data.timestamp)]
  /\ pc' = "converted"
  /\ UNCHANGED << fs, dirs, kinds, readmes, ext, run, at_launch, history, inv,
                  exit_code, crashed, final_marker, data >>
  /\ UNCHANGED loopVars
  /\ UNCHANGED passVars

TimeSpec == TimeInit /\ [][ConvertTimestamp]_vars

\* ------------------------------------------------------------------------
\* The command of the metadata write on its own
\* ------------------------------------------------------------------------
\* geoData.latitude, geoData.longitude and geoData.altitude of the sidecar,
\* in whole degrees and metres, and its description
Latitudes == { None, << -91 >>, << -90 >>, << 0 >>, << 45 >>, << 90 >>, << 91 >> }

Longitudes == { None, << -181 >>, << -180 >>, << 0 >>, << 100 >>, << 180 >>, << 181 >> }

Altitudes == { None, << 0 >>, << 12 >> }

Descriptions == { << >>, << "d" >> }

CommandInit ==
  /\ IdleOnOneFile
  /\ \E latitude \in Latitudes, longitude \in Longitudes,
        altitude \in Altitudes, description \in Descriptions :
       data = [NoData EXCEPT !.latitude = latitude, !.longitude = longitude,
                             !.altitude = altitude, !.description = description]

\* lines 347-366 for the sidecar read and the media file of the tree
BuildCommand ==
  /\ pc = "start"
  /\ computed' = [computed EXCEPT
                    !.cmd_args = cmd_args(data.timestamp, data.latitude,
                                          data.longitude, data.altitude,
                                          data.description, Candidates[2])]
  /\ pc' = "built"
  /\ UNCHANGED << fs, dirs, kinds, readmes, ext, run, at_launch, history, inv,
                  exit_code, crashed, final_marker, data >>
  /\ UNCHANGED loopVars
  /\ UNCHANGED passVars

CommandSpec == CommandInit /\ [][BuildCommand]_vars

\* ------------------------------------------------------------------------
\* The base name of a sidecar on its own
\* ------------------------------------------------------------------------
\* the first n characters and the last n characters of a pattern
PatternHead(k, n) == SubSeq(json_patterns[k], 1, n)

PatternTail(k, n) ==
  SubSeq(json_patterns[k], Len(json_patterns[k]) - n + 1, Len(json_patterns[k]))

\* file names made of the start of one pattern and the end of another, after
\* a media file's name or its stem, as written and in capitals
SidecarNames ==
  UNION { { stem \o PatternHead(h, i) \o PatternTail(t, j) :
              i \in 0..Len(json_patterns[h]), j \in 0..Len(json_patterns[t]) } :
            stem \in { BASE, BASE \o EXT_JPG },
            h \in 1..Len(json_patterns), t \in 1..Len(json_patterns) }

\* the tree holds one file, whose name is one of these names
NameInit ==
  /\ \E n \in SidecarNames : \E name \in { n, Upper(n) } :
       fs = (1 :> Join(source_folder, name))
  /\ dirs = { source_folder }
  /\ kinds = [id \in {1} |-> "ok"]
  /\ readmes = {}
  /\ ext = 0
  /\ run = 1
  /\ at_launch = [fs |-> fs, dirs |-> dirs, readmes |-> {}]
  /\ history = << >>
  /\ FreshLaunch
  /\ data = NoData
  /\ computed = NothingComputed

\* the base name of the file as find_media_file (lines 81-88) and
\* process_photos (lines 302-308) derive it from the ordered list, and as
\* move_files_without_matching_json (lines 431-434) derives it from the set,
\* whose iteration order is any order
DeriveBaseName ==
  /\ pc = "start"
  /\ \E k \in (IF JsonHits(Basename(fs[1])) = {} THEN {0}
               ELSE JsonHits(Basename(fs[1]))) :
       computed' = [computed EXCEPT
                      !.base_name = StripPattern(Basename(fs[1])),
                      !.json_original_base = StripPattern(Basename(fs[1])),
                      !.base_of_set = StripAt(Basename(fs[1]), k)]
  /\ pc' = "derived"
  /\ UNCHANGED << fs, dirs, kinds, readmes, ext, run, at_launch, history, inv,
                  exit_code, crashed, final_marker, data >>
  /\ UNCHANGED loopVars
  /\ UNCHANGED passVars

NameSpec == NameInit /\ [][DeriveBaseName]_vars

\* ------------------------------------------------------------------------
\* Properties
\* ------------------------------------------------------------------------
\* process_photos has returned
LoopDone ==
  \/ pc \in {"quarantine", "archive", "summary"}
  \/ pc = "exit" /\ (final_marker \/ crashed)

\* C1: when process_photos has returned, the number of sidecars found is the
\* sum of the updated, the error and the skipped-no-media counts.
C1_CountsReconcile ==
  LoopDone =>
    total_files_scanned = updated_photos + error_photos + skipped_no_media

\* C2: when the program has completed on a tree without a failed move and is
\* launched on the resulting tree again, the two passes of the second launch
\* move no file.
C2_SecondRunMovesNothing ==
  ( /\ Len(history) = 2
    /\ history[1].completed
    /\ history[1].move_errors = 0
    /\ history[2].completed )
  => (history[2].moved_media = 0 /\ history[2].moved_json = 0)

\* C3: after the two passes of a launch in which no move failed and nobody
\* else removed a file, the media file of every pair recorded as Updated is
\* not in the quarantine folder and its sidecar is in the archive folder.
C3_UpdatedPairsKept ==
  (pc = "exit" /\ final_marker /\ ext = 0 /\ move_errors = 0)
  => \A pair \in matched :
       /\ Dirname(fs[pair[2]]) # no_metadata_folder
       /\ Dirname(fs[pair[1]]) = json_folder

\* C4: whenever the program has exited, on whatever path, the final marker
\* PROCESSING_COMPLETE was logged.
C4_FinalMarkerOnEveryExit == pc = "exit" => final_marker

\* one of the four checks of lines 564-588 failed
FourConditions ==
  \/ inv.argc # 4
  \/ inv.isdir = "no"
  \/ inv.tz \notin {"pacific", "utc", "unread"}
  \/ inv.preflight \in {"error", "none"}

C6_PreflightFailureLeavesTree ==
  inv.preflight \in {"error", "none"} =>
    /\ pc = "exit"
    /\ exit_code = 1
    /\ fs = at_launch.fs
    /\ dirs = at_launch.dirs
    /\ readmes = at_launch.readmes
    /\ json_files = << >>
    /\ idx = 0
    /\ processed_json_paths = {}
    /\ writes = << >>

\* the pre-flight failed on a tree with sidecars to read and media to move
C6_AbortedWithWorkLeft ==
  /\ inv.preflight = "none"
  /\ pc = "exit"
  /\ find_json_files(fs, dirs, source_folder) # {}
  /\ Orphans(fs, dirs) # {}

\* no file has the name of an output folder, so both folders can be created
FoldersCreatable ==
  ~ Exists(fs, no_metadata_folder) /\ ~ Exists(fs, json_folder)

NewMediaFile(found) ==
  Join(Dirname(found.media), SplitExtRoot(Basename(found.media)) \o EXT_JPG)

NewJsonFile(found) ==
  Join(Dirname(found.media),
       SplitExtRoot(Basename(found.media)) \o EXT_JPG \o found.suffix)

\* a target name of the rename exists already
TargetExists(f, found) ==
  Exists(f, NewMediaFile(found)) \/ Exists(f, NewJsonFile(found))

\* C8: an iteration whose probe says JPEG while a target name of the rename
\* exists leaves every file where it is, makes no write and counts one error.
C8_RenameConflictMutatesNothing ==
  [][ ( /\ idx' = idx + 1
        /\ last'.probe = "jpeg"
        /\ TargetExists(fs, find_media_file(fs, json_files[idx + 1])) )
      => ( /\ fs' = fs
           /\ writes' = writes
           /\ last'.wrote = NoPath
           /\ error_photos' = error_photos + 1
           /\ updated_photos' = updated_photos
           /\ skipped_no_media' = skipped_no_media ) ]_vars

\* a rename was refused and the .heic file and its sidecar are still there
C8_ConflictSeen ==
  /\ last.outcome = "rename_conflict"
  /\ last.probe = "jpeg"
  /\ EndsWith(Lower(Basename(last.media)), EXT_HEIC)
  /\ Exists(fs, last.media)
  /\ Exists(fs, last.orig)
  /\ error_photos > 0

\* the iteration moved the media file and the sidecar to the new names
CoupledRename(found) ==
  /\ fs'[FileAt(fs, found.media)] = NewMediaFile(found)
  /\ fs'[FileAt(fs, json_files[idx + 1])] = NewJsonFile(found)

\* what C9 asks of the state after a coupled rename
RenamedPathsUsed(found) ==
  /\ ~ Exists(fs', found.media)
  /\ ~ Exists(fs', json_files[idx + 1])
  /\ last'.wrote = NewMediaFile(found)
  /\ writes' = Append(writes, NewMediaFile(found))
  /\ last'.json = NewJsonFile(found)
  /\ processed_json_paths' = processed_json_paths \cup {NewJsonFile(found)}

\* C9: after an iteration that renamed a .heic file and its sidecar, no file
\* has the old media name or the old sidecar name, the metadata write of the
\* iteration targets the new media path, and the path recorded as handled is
\* the new sidecar path.
C9_RenamedPathsAreUsed ==
  [][ ( /\ idx' = idx + 1
        /\ last'.probe = "jpeg"
        /\ last'.renamed
        /\ CoupledRename(find_media_file(fs, json_files[idx + 1])) )
      => RenamedPathsUsed(find_media_file(fs, json_files[idx + 1])) ]_vars

\* a .heic file and its sidecar were renamed and the write succeeded
C9_RenamedAndUpdated ==
  /\ last.outcome = "updated"
  /\ last.renamed
  /\ last.json # last.orig
  /\ EndsWith(Basename(last.media), EXT_JPG)
  /\ Exists(fs, last.media)
  /\ Exists(fs, last.json)

\* name ends with the pattern when both are compared without case
EndsWithIgnoringCase(name, pattern) ==
  /\ Len(name) >= Len(pattern)
  /\ \A i \in 1..Len(pattern) :
       LowerChar(name[Len(name) - Len(pattern) + i]) = LowerChar(pattern[i])

\* the files below root with a sidecar suffix and without an ancestor
\* directory, below root, that has the name of an output folder
SidecarsBelow(root) ==
  { fs[id] : id \in
      { i \in DOMAIN fs :
          /\ Len(fs[i]) > Len(root)
          /\ SubSeq(fs[i], 1, Len(root)) = root
          /\ \E k \in 1..Len(json_patterns) :
               EndsWithIgnoringCase(Basename(fs[i]), json_patterns[k])
          /\ \A n \in (Len(root) + 1)..(Len(fs[i]) - 1) :
               fs[i][n] \notin ignore_folders } }

\* C10: for every directory taken as the root, find_json_files returns
\* exactly the files below it whose name ends, case ignored, with one of the
\* six suffixes and that are in no folder named NO_METADATA_FOUND or
\* JSON_METADATA below the root.
C10_FindJsonFilesExact ==
  \A root \in dirs : find_json_files(fs, dirs, root) = SidecarsBelow(root)

\* the scan listed a sidecar with an upper-case suffix only, while a sidecar inside
\* JSON_METADATA and a .json file without a sidecar suffix are not
C10_MixedTree ==
  /\ pc = "loop"
  /\ json_files = << Candidates[5] >>
  /\ Candidates[5] \in find_json_files(fs, dirs, source_folder)
  /\ Exists(fs, Candidates[12])
  /\ Candidates[12] \notin find_json_files(fs, dirs, source_folder)
  /\ Exists(fs, Candidates[7])
  /\ Candidates[7] \notin find_json_files(fs, dirs, source_folder)

\* a media file that is in no folder with the name of an output folder
\* below the source folder
OutsideOutputFolders(p) ==
  /\ p # NoPath
  /\ \A n \in (Len(source_folder) + 1)..(Len(p) - 1) : p[n] \notin ignore_folders

\* a sidecar lies in the directory of the media file p whose name without
\* its sidecar suffix is, case ignored, p's name without its extension
HasSidecarBeside(f, p) ==
  \E j \in DOMAIN f :
    /\ f[j] # NoPath
    /\ Dirname(f[j]) = Dirname(p)
    /\ \E k \in 1..Len(json_patterns) :
         /\ EndsWithIgnoringCase(Basename(f[j]), json_patterns[k])
         /\ Lower(DropLast(Basename(f[j]), Len(json_patterns[k])))
              = Lower(SplitExtRoot(Basename(p)))

\* the quarantine pass has run to its end, no move raised and no other
\* actor removed a file meanwhile
QuarantineCompleted ==
  /\ pc = "quarantine" /\ pc' = "archive"
  /\ move_errors' = move_errors
  /\ ext' = ext

\* C11: when the quarantine pass completes without a move error, a media
\* file outside the output folders stays at its path if and only if a
\* sidecar with the matching base name was in its directory when the pass
\* started (after the renames of the loop); every other one is in the
\* quarantine folder afterwards.
C11_QuarantineDecision ==
  [][ QuarantineCompleted =>
        \A id \in DOMAIN fs :
          (OutsideOutputFolders(fs[id]) /\ IsMediaName(Basename(fs[id]))) =>
            IF HasSidecarBeside(fs, fs[id])
            THEN fs'[id] = fs[id]
            ELSE Dirname(fs'[id]) = no_metadata_folder ]_vars

\* the pass completed and quarantined a media file that the loop had renamed
\* and that had a matching sidecar when the program was launched
C11_DecidedOnCurrentTree ==
  /\ pc = "archive"
  /\ move_errors = 0
  /\ \E id \in DOMAIN fs :
       /\ fs[id] # NoPath
       /\ Dirname(fs[id]) = no_metadata_folder
       /\ OutsideOutputFolders(at_launch.fs[id])
       /\ HasSidecarBeside(at_launch.fs, at_launch.fs[id])
       /\ Basename(fs[id]) # Basename(at_launch.fs[id])

\* path p lies below the directory d
Below(p, d) == Len(p) > Len(d) /\ SubSeq(p, 1, Len(d)) = d

\* a file that is in neither of the two folders the passes fill
OutsideBothOutputFolders(p) ==
  /\ p # NoPath
  /\ ~ Below(p, no_metadata_folder)
  /\ ~ Below(p, json_folder)

\* C11 as stated, for every media file outside the quarantine folder and the
\* archive folder of the source folder: it stays if and only if it has a
\* matching sidecar beside it, and is in the quarantine folder otherwise.
C11_DecisionOutsideTheTwoFolders ==
  [][ QuarantineCompleted =>
        \A id \in DOMAIN fs :
          (OutsideBothOutputFolders(fs[id]) /\ IsMediaName(Basename(fs[id]))) =>
            IF HasSidecarBeside(fs, fs[id])
            THEN fs'[id] = fs[id]
            ELSE Dirname(fs'[id]) = no_metadata_folder ]_vars

\* the name of the file at path p ends, case ignored, with a sidecar suffix
HasSidecarSuffix(p) ==
  /\ p # NoPath
  /\ \E k \in 1..Len(json_patterns) :
       EndsWithIgnoringCase(Basename(p), json_patterns[k])

\* the archive pass has run to its end, no move raised and no other actor
\* removed a file meanwhile
ArchiveCompleted ==
  /\ pc = "archive" /\ pc' = "summary"
  /\ move_errors' = move_errors
  /\ ext' = ext

\* C12: when the archive pass completes without a move error, no file with a
\* sidecar suffix is left outside the folders named JSON_METADATA or
\* NO_METADATA_FOUND, every such file the pass visited is in the archive
\* folder, and no file below a folder named NO_METADATA_FOUND has moved.
C12_ArchivePostcondition ==
  [][ ArchiveCompleted =>
        \A id \in DOMAIN fs :
          /\ (HasSidecarSuffix(fs[id]) /\ OutsideOutputFolders(fs[id]))
               => Dirname(fs'[id]) = json_folder
          /\ HasSidecarSuffix(fs'[id]) => ~ OutsideOutputFolders(fs'[id])
          /\ (fs[id] # NoPath /\ ~ OutsideOutputFolders(fs[id]))
               => fs'[id] = fs[id] ]_vars

\* C12 as stated: after a completed archive pass without a move error every
\* file with a sidecar suffix is below the archive folder or the quarantine
\* folder of the source folder, and no file of the quarantine folder has moved.
C12_NoSidecarOutsideTheTwoFolders ==
  [][ ArchiveCompleted =>
        \A id \in DOMAIN fs :
          /\ HasSidecarSuffix(fs'[id]) => ~ OutsideBothOutputFolders(fs'[id])
          /\ (fs[id] # NoPath /\ Below(fs[id], no_metadata_folder))
               => fs'[id] = fs[id] ]_vars

\* the pass archived a sidecar and left a file of the quarantine folder alone
C12_ArchivedBesideQuarantine ==
  /\ pc = "summary"
  /\ move_errors = 0
  /\ moved_json > 0
  /\ \E id \in DOMAIN fs :
       /\ HasSidecarSuffix(fs[id])
       /\ Dirname(fs[id]) = json_folder
       /\ Dirname(at_launch.fs[id]) # json_folder
  /\ \E id \in DOMAIN fs :
       fs[id] # NoPath /\ Dirname(fs[id]) = no_metadata_folder

\* the files that exist in the tree f
Present(f) == { id \in DOMAIN f : f[id] # NoPath }

\* C13: a step of the quarantine pass or of the archive pass, with no other
\* actor removing files meanwhile, loses no file:
\* every file is still there afterwards, the files that were below the
\* quarantine or the archive folder are at their paths, and no two files
\* have the same path, however many had the same name.
C13_NoClobbering ==
  [][ (pc \in {"quarantine", "archive"} /\ ext' = ext) =>
        ( /\ Present(fs') = Present(fs)
          /\ \A id \in Present(fs) :
               (Below(fs[id], no_metadata_folder) \/ Below(fs[id], json_folder))
                 => fs'[id] = fs[id]
          /\ \A a, b \in Present(fs') : a # b => fs'[a] # fs'[b] ) ]_vars

\* the quarantine folder held A.jpg, and the pass put two more files named
\* A.jpg from two directories beside it
C13_ThreeSameNames ==
  /\ pc = "archive"
  /\ 11 \in DOMAIN fs
  /\ at_launch.fs[11] = Candidates[11]
  /\ \E a, b \in Present(fs) :
       /\ a # b
       /\ Basename(at_launch.fs[a]) = Basename(Candidates[11])
       /\ Basename(at_launch.fs[b]) = Basename(Candidates[11])
       /\ Dirname(at_launch.fs[a]) # Dirname(at_launch.fs[b])
       /\ ~ Below(at_launch.fs[a], no_metadata_folder)
       /\ ~ Below(at_launch.fs[b], no_metadata_folder)
       /\ Dirname(fs[a]) = no_metadata_folder
       /\ Dirname(fs[b]) = no_metadata_folder
       /\ Cardinality({ fs[a], fs[b], fs[11] }) = 3

\* the files that were below the quarantine folder or the archive folder
\* when the current launch started
OrganizedAtLaunch ==
  { id \in DOMAIN at_launch.fs :
      /\ at_launch.fs[id] # NoPath
      /\ \/ Below(at_launch.fs[id], no_metadata_folder)
         \/ Below(at_launch.fs[id], json_folder) }

\* C14: during a launch, a file that was below the quarantine folder or the
\* archive folder when the launch started is not among the discovered
\* sidecars, is not a target of a metadata write, and is still at its path.
C14_OrganizedItemsUntouched ==
  \A id \in OrganizedAtLaunch :
    /\ fs[id] = at_launch.fs[id]
    /\ \A i \in 1..Len(json_files) : json_files[i] # at_launch.fs[id]
    /\ \A i \in 1..Len(writes) : writes[i] # at_launch.fs[id]
    /\ last.media # at_launch.fs[id]

\* a second launch found a sidecar to process and ran to its end on a tree
\* where the first launch had quarantined one file and archived another
C14_SecondRunAfterOrganizing ==
  /\ run = 2
  /\ pc = "exit"
  /\ final_marker
  /\ total_files_scanned > 0
  /\ \E a, b \in OrganizedAtLaunch :
       /\ Dirname(at_launch.fs[a]) = no_metadata_folder
       /\ ~ Below(Candidates[a], no_metadata_folder)
       /\ Dirname(at_launch.fs[b]) = json_folder
       /\ ~ Below(Candidates[b], json_folder)

\* the spellings of extension k that the same-directory lookup accepts
ExtSpellings(k) ==
  { media_extensions[k], Lower(media_extensions[k]), Upper(media_extensions[k]) }

\* the extensions for which base + extension exists in the directory
SameDirExts(f, dir, base) ==
  { k \in 1..Len(media_extensions) :
      \E e \in ExtSpellings(k) : Exists(f, Join(dir, base \o e)) }

\* the (marker, extension) pairs for which base(1) + extension or base(2) +
\* extension exists in the directory
DupHits(f, dir, base) ==
  { h \in (1..Len(DupMarkers)) \X (1..Len(media_extensions)) :
      Exists(f, Join(dir, base \o DupMarkers[h[1]] \o media_extensions[h[2]])) }

\* the extensions for which base + extension exists in the parent directory
ParentExts(f, dir, base) ==
  { k \in 1..Len(media_extensions) :
      Exists(f, Join(Dirname(dir), base \o media_extensions[k])) }

\* the result for the sidecar at p with the base name base follows the
\* priority: same directory, duplicate index, parent directory, nothing
LookupInPriority(f, p, base) ==
  LET found == find_media_file(f, p)
      dir == Dirname(p)
      same == SameDirExts(f, dir, base)
      dup == DupHits(f, dir, base)
      par == ParentExts(f, dir, base)
  IN  IF same # {}
      THEN /\ found.found
           /\ \E k \in same :
                /\ \A j \in same : k <= j
                /\ \E e \in ExtSpellings(k) : found.media = Join(dir, base \o e)
      ELSE IF dup # {}
      THEN /\ found.found
           /\ \E h \in dup :
                /\ \A g \in dup : g[1] = h[1] => h[2] <= g[2]
                /\ found.media
                     = Join(dir, base \o DupMarkers[h[1]] \o media_extensions[h[2]])
      ELSE IF par # {}
      THEN /\ found.found
           /\ \E k \in par :
                /\ \A j \in par : k <= j
                /\ found.media = Join(Dirname(dir), base \o media_extensions[k])
      ELSE ~ found.found

ScanMatches(f, dir, base) ==
  { f[id] : id \in
      { i \in Present(f) :
          /\ Dirname(f[i]) = dir
          /\ StartsWith(Lower(Basename(f[i])), Lower(base))
          /\ \E k \in 1..Len(media_extensions) :
               EndsWithIgnoringCase(Basename(f[i]), media_extensions[k]) } }

\* C16: for every sidecar of the tree, when no file named base + extension is
\* in the sidecar's directory and the directory has a file whose name, case
\* ignored, starts with the base name and ends with a media extension,
\* find_media_file returns such a file.
C16_CaseInsensitiveScan ==
  \A id \in Present(fs) :
    \A k \in 1..Len(json_patterns) :
      EndsWithIgnoringCase(Basename(fs[id]), json_patterns[k]) =>
        \A base \in { DropLast(Basename(fs[id]), Len(json_patterns[k])) } :
          ( /\ \A e \in 1..Len(media_extensions) :
                 ~ Exists(fs, Join(Dirname(fs[id]), base \o media_extensions[e]))
            /\ ScanMatches(fs, Dirname(fs[id]), base) # {} )
          => /\ find_media_file(fs, fs[id]).found
             /\ find_media_file(fs, fs[id]).media
                  \in ScanMatches(fs, Dirname(fs[id]), base)

\* C17: for every sidecar of the tree, when find_media_file returns a media
\* file the suffix it returns with it is the sidecar suffix the name ends
\* with, and the suffix is empty only when no media file is returned.
C17_SuffixReturned ==
  \A id \in Present(fs) :
    \A k \in 1..Len(json_patterns) :
      EndsWithIgnoringCase(Basename(fs[id]), json_patterns[k]) =>
        IF find_media_file(fs, fs[id]).found
        THEN find_media_file(fs, fs[id]).suffix = json_patterns[k]
        ELSE find_media_file(fs, fs[id]).suffix = << >>

\* day d of the month is a Sunday (4 January 1970 was one)
IsSunday(year, month, day) == DaysSinceEpoch(year, month, day) % 7 = 3

\* 10:00 UTC on the second Sunday of March: the Sunday among 8..14 March
MarchBoundary(year) ==
  Datetime(year, 3, CHOOSE day \in 8..14 : IsSunday(year, 3, day), 10)

\* 09:00 UTC on the first Sunday of November: the Sunday among 1..7 November
NovemberBoundary(year) ==
  Datetime(year, 11, CHOOSE day \in 1..7 : IsSunday(year, 11, day), 9)

\* the year the timestamp of the sidecar lies in, by its first and last second
YearOfData ==
  CHOOSE year \in FirstYear..LastYear :
    /\ Datetime(year, 1, 1, 0) <= data.timestamp
    /\ data.timestamp < Datetime(year + 1, 1, 1, 0)

\* C18: a timestamp of a year is outside the daylight period when it is
\* before 10:00 UTC of the second Sunday of March, and inside it from then
\* until the November boundary; the offset chosen is -8 and -7 accordingly.
C18_MarchBoundary ==
  /\ data.timestamp < MarchBoundary(YearOfData) => ~ is_pdt(data.timestamp)
  /\ ( /\ MarchBoundary(YearOfData) <= data.timestamp
       /\ data.timestamp < NovemberBoundary(YearOfData) )
       => is_pdt(data.timestamp)
  /\ pc = "converted" =>
       computed.offset_hours
         = IF /\ MarchBoundary(YearOfData) <= data.timestamp
              /\ data.timestamp < NovemberBoundary(YearOfData)
           THEN -7 ELSE -8

\* C19: a timestamp of a year is inside the daylight period one second
\* before 09:00 UTC of the first Sunday of November and outside it from
\* 09:00 UTC of that day to the end of the year; the offset chosen is -7 and -8
\* accordingly.
C19_NovemberBoundary ==
  /\ data.timestamp = NovemberBoundary(YearOfData) - 1 => is_pdt(data.timestamp)
  /\ data.timestamp >= NovemberBoundary(YearOfData) => ~ is_pdt(data.timestamp)
  /\ pc = "converted" =>
       /\ data.timestamp = NovemberBoundary(YearOfData) - 1
            => computed.offset_hours = -7
       /\ data.timestamp >= NovemberBoundary(YearOfData)
            => computed.offset_hours = -8

\* the conversion was done for the boundary itself, with offset -8
C19_AtTheBoundary ==
  /\ pc = "converted"
  /\ data.timestamp = NovemberBoundary(YearOfData)
  /\ computed.offset_hours = -8

\* the command built has an argument for the tag
HasOpt(opt) ==
  \E i \in 1..Len(computed.cmd_args) : computed.cmd_args[i].opt = opt

\* both coordinates are there, not both zero, and in their ranges
UsableCoordinates ==
  /\ data.latitude # None
  /\ data.longitude # None
  /\ ~ (data.latitude[1] = 0 /\ data.longitude[1] = 0)
  /\ data.latitude[1] \in -90..90
  /\ data.longitude[1] \in -180..180

\* C20: the command built for a sidecar has the GPS latitude and longitude
\* arguments, both of them, exactly when both coordinates are present, not
\* both zero and within [-90, 90] and [-180, 180]; it has a GPS altitude
\* argument only together with them.
C20_GpsArguments ==
  pc = "built" =>
    /\ HasOpt("GPSLatitude") <=> UsableCoordinates
    /\ HasOpt("GPSLongitude") <=> UsableCoordinates
    /\ HasOpt("GPSAltitude") => (HasOpt("GPSLatitude") /\ HasOpt("GPSLongitude"))

\* a command with all three GPS arguments for a point on the equator, and
\* with the description and the target file after them
C20_EquatorWithAltitude ==
  /\ pc = "built"
  /\ data.latitude = << 0 >>
  /\ data.longitude = << 100 >>
  /\ HasOpt("GPSLatitude")
  /\ HasOpt("GPSLongitude")
  /\ HasOpt("GPSAltitude")
  /\ HasOpt("Description")
  /\ computed.cmd_args[Len(computed.cmd_args)].opt = "file"

\* an iteration of the loop that got past the two skips at its top (the
\* path is already handled, the file is gone) has just ended
SidecarProcessed ==
  /\ pc = "loop"
  /\ idx' = idx + 1
  /\ last'.outcome \notin {"already_handled", "vanished"}

\* C21: an iteration that processes a sidecar, whatever its outcome (a
\* sidecar without a timestamp included), adds one to exactly one of the
\* three counters and puts the sidecar's current path into the handled set.
C21_OneCounterPerSidecar ==
  [][ SidecarProcessed =>
        ( /\ updated_photos' + error_photos' + skipped_no_media'
               = updated_photos + error_photos + skipped_no_media + 1
          /\ last'.json \in processed_json_paths' ) ]_vars

\* an iteration has just found its path in the handled set
SkippedAsHandled ==
  pc = "loop" /\ idx' = idx + 1 /\ last'.outcome = "already_handled"

\* C22: in one launch no sidecar file is opened by two iterations, whatever
\* its path was each time, there are no more metadata writes than opened
\* sidecars, and an iteration that finds its path in the handled set
\* changes neither the tree nor the counters nor the handled set.
C22_AtMostOnce ==
  [][ /\ \A i, j \in 1..Len(parsed') : i # j => parsed'[i] # parsed'[j]
      /\ Len(writes') <= Len(parsed')
      /\ SkippedAsHandled =>
           /\ fs' = fs
           /\ writes' = writes
           /\ processed_json_paths' = processed_json_paths
           /\ << updated_photos', error_photos', skipped_no_media' >>
                = << updated_photos, error_photos, skipped_no_media >> ]_vars

\* a later iteration came to the path that a coupled rename had given to a
\* sidecar opened before, and skipped it
C22_RenamedPathSkipped ==
  /\ last.outcome = "already_handled"
  /\ Exists(fs, last.orig)
  /\ \E i \in 1..Len(parsed) :
       /\ parsed[i] = FileAt(fs, last.orig)
       /\ at_launch.fs[parsed[i]] # last.orig

\* an iteration has just renamed a media file while the sidecar it was
\* working on exists and has stayed at its path
PartialRename ==
  /\ pc = "loop"
  /\ idx' = idx + 1
  /\ Exists(fs, json_files[idx + 1])
  /\ fs'[FileAt(fs, json_files[idx + 1])] = json_files[idx + 1]
  /\ \E m \in Present(fs) : fs'[m] # fs[m]

\* C23: when an iteration has moved the media file and the sidecar has not
\* followed, the media file has its .jpg name, the sidecar is where it was
\* and is marked as handled, the error count is one higher and the other
\* counts are as before, no metadata write was started, and the loop goes
\* on to the next sidecar or returns.
C23_PartialRenameIsAnError ==
  [][ PartialRename =>
        ( /\ \A m \in Present(fs) :
               fs'[m] # fs[m] =>
                 /\ EndsWith(Lower(Basename(fs[m])), EXT_HEIC)
                 /\ fs'[m] = Join(Dirname(fs[m]),
                                  SplitExtRoot(Basename(fs[m])) \o EXT_JPG)
          /\ json_files[idx + 1] \in processed_json_paths'
          /\ error_photos' = error_photos + 1
          /\ updated_photos' = updated_photos
          /\ skipped_no_media' = skipped_no_media
          /\ writes' = writes
          /\ pc' = IF idx' = Len(json_files) THEN "quarantine" ELSE "loop" ) ]_vars

\* a sidecar move failed after the media move, and the loop went on and
\* updated a file from a later sidecar
C23_LoopWentOnAfterPartial ==
  /\ last.outcome = "updated"
  /\ Len(parsed) >= 2
  /\ error_photos = 1
  /\ \E m \in Present(fs) :
       /\ at_launch.fs[m] # fs[m]
       /\ EndsWith(Lower(Basename(at_launch.fs[m])), EXT_HEIC)
       /\ EndsWith(Basename(fs[m]), EXT_JPG)
       /\ fs[parsed[1]] = at_launch.fs[parsed[1]]
       /\ StripPattern(Basename(fs[parsed[1]])) = SplitExtRoot(Basename(fs[m]))
  /\ last.renamed = FALSE

\* the last iteration renamed the media file and its sidecar
CoupledRenameDone ==
  /\ last.renamed
  /\ last.json # last.orig
  /\ Exists(fs, last.json)

\* the file that the last iteration renamed from .heic to .jpg
RenamedMedia ==
  { m \in Present(fs) :
      /\ EndsWith(Lower(Basename(at_launch.fs[m])), EXT_HEIC)
      /\ Basename(fs[m]) = SplitExtRoot(Basename(at_launch.fs[m])) \o EXT_JPG }

\* C24: after a coupled rename the renamed sidecar and the renamed media
\* file have the same key (lower-cased base name, directory) in the
\* quarantine pass, and the pass does not move the renamed media file.
C24_RenameKeepsAssociation ==
  /\ (CoupledRenameDone /\ Exists(fs, last.media)) =>
       << Lower(StripPatternOfSet(Basename(last.json))), Dirname(last.json) >>
         = << Lower(SplitExtRoot(Basename(last.media))), Dirname(last.media) >>
  /\ (CoupledRenameDone /\ pc \in {"archive", "summary"}) =>
       \A m \in RenamedMedia : Dirname(fs[m]) # no_metadata_folder

\* the files that this step has put below the folder d
MovedInto(d) ==
  { id \in Present(fs) : ~ Below(fs[id], d) /\ Below(fs'[id], d) }

\* C25: a file comes into the quarantine folder only by the quarantine pass
\* and into the archive folder only by the archive pass, both only after
\* the last discovered sidecar had its iteration; the quarantine pass is
\* over before the archive pass starts, and the summary of a launch comes
\* only after both passes, also when the scan found no sidecar.
C25_PhaseOrder ==
  [][ /\ MovedInto(no_metadata_folder) # {} =>
           (pc = "quarantine" /\ idx = Len(json_files))
      /\ MovedInto(json_folder) # {} =>
           (pc = "archive" /\ idx = Len(json_files))
      /\ (pc' = "quarantine" /\ pc # "quarantine") =>
           (pc \in {"scan", "loop"} /\ idx' = Len(json_files'))
      /\ (pc' = "archive" /\ pc # "archive") => pc = "quarantine"
      /\ (pc' = "summary" /\ pc # "summary") => pc = "archive"
      /\ (final_marker' /\ ~ final_marker) => pc = "summary" ]_vars

\* a launch that found no sidecar has finished, and its quarantine pass has
\* moved a media file
C25_PassesRanWithoutSidecars ==
  /\ pc = "exit"
  /\ final_marker
  /\ total_files_scanned = 0
  /\ moved_media > 0
  /\ no_metadata_folder \in dirs
  /\ json_folder \in dirs
  /\ at_launch.dirs = {source_folder}

\* a pass has run to its end while another actor removed a file it had
\* enumerated, and every file at the paths that is still there was moved
\* into the folder
PassWithVanishedFile(at, next, paths, folder) ==
  /\ pc = at
  /\ pc' = next
  /\ ext' > ext
  /\ \A id \in Present(fs) :
       (fs[id] \in paths /\ fs'[id] # NoPath) => Dirname(fs'[id]) = folder

\* C26: when a file that a pass enumerated is removed by another actor
\* before the pass moves it, and the pass moves every other file it
\* selected, the pass ends without an "Error moving" record.
C26_VanishedFilesSkippedSilently ==
  [][ ( \/ PassWithVanishedFile("quarantine", "archive",
                                Orphans(fs, dirs), no_metadata_folder)
        \/ PassWithVanishedFile("archive", "summary",
                                RemainingJson(fs, dirs), json_folder) )
      => move_errors' = move_errors ]_vars

\* the known suffixes that the name ends with, letter case ignored
SuffixesOf(name) ==
  { k \in 1..Len(json_patterns) : EndsWithIgnoringCase(name, json_patterns[k]) }

\* C27: at most one of the six known suffixes matches a file name, letter
\* case ignored, and the base name derived from the ordered list in
\* find_media_file and in process_photos and the one derived from the set in
\* move_files_without_matching_json are the same: the name without that
\* suffix, or the whole name when no suffix matches.
C27_OneSuffixOneBase ==
  pc = "derived" =>
    /\ Cardinality(SuffixesOf(Basename(fs[1]))) <= 1
    /\ computed.base_name = computed.base_of_set
    /\ computed.json_original_base = computed.base_of_set
    /\ \A k \in SuffixesOf(Basename(fs[1])) :
         computed.base_of_set
           = DropLast(Basename(fs[1]), Len(json_patterns[k]))
    /\ SuffixesOf(Basename(fs[1])) = {} => computed.base_of_set = Basename(fs[1])

\* a name in capitals that carries two known suffixes one after the other
\* has lost the last one only, in all three derivations
C27_TwoSuffixesInARow ==
  /\ pc = "derived"
  /\ Basename(fs[1]) = Upper(BASE \o json_patterns[5] \o json_patterns[6])
  /\ computed.base_name = Upper(BASE \o json_patterns[5])
  /\ computed.json_original_base = computed.base_name
  /\ computed.base_of_set = computed.base_name

\* C28: in one run no media file is the target of two metadata writes,
\* whichever sidecars resolve to it.
C28_OneWritePerMediaFile ==
  \A i \in 1..Len(writes) : \A j \in 1..Len(writes) :
    writes[i] = writes[j] => i = j
====
